---- MODULE Spec2Model ----
(***************************************************************************)
(* The two edge functions of the AI agent evaluation dashboard:            *)
(*   evaluate : runs one task K times against one model (Pass@K)           *)
(*   ab-test  : runs one task R times against each of three models         *)
(* Each handles one request from validation to response.  The provider     *)
(* (the generation API) is the environment: each call either fails with a  *)
(* non-success status or returns one of the replies of Replies.            *)
(*                                                                         *)
(* Conventions                                                             *)
(*  - a JavaScript string is a sequence of one-character strings;          *)
(*  - a JSON value is a record [type, val]: undefined, string, number or   *)
(*    array;                                                               *)
(*  - a number that may carry decimals (latency_ms, pass_at_k,             *)
(*    success_rate, average_latency, average_tokens) is held as the        *)
(*    integer number of hundredths, so 33.33 is 3333 and 100.0 is 10000;   *)
(*  - the timestamp of a RunResult is the wall clock and is left out.      *)
(***************************************************************************)
EXTENDS Integers, Sequences, FiniteSets, TLC

VARIABLES
    apiKey,     \* GEMINI_API_KEY is set in the environment
    req,        \* the request being handled: [handler, method, body]
    pc,         \* "idle", "await_fetch", "sleep500", "sleep1000", "done"
    k,          \* the validated run count (k, runsPerModel)
    m,          \* ab-test: index in models of the model under test
    i,          \* the loop index of calculatePassAtK / testModel
    runs,       \* the runs array of calculatePassAtK / testModel
    results,    \* ab-test: the results array of the handler
    resp,       \* the response returned: [status, detail, result]
    log,        \* what the request did so far: provider calls, replies, pauses
    alt,        \* how many provider replies of this request were not DefaultReply
    other,      \* the locals of a second invocation of a handler, suspended at
                \* an await while the one above runs: [req, pc, ..., alt]
    data,       \* the runner alone: the JSON body of a provider response
    parsed,     \* the runner alone: what it made of data
    mounted,    \* the page: the component App renders
    uiTask,     \* the page: the component's task
    uiRuns,     \* the page: k of SingleEvaluation, runsPerModel of ABTesting
    uiLoading,  \* the page: the component's loading
    uiResult,   \* the page: the component's result
    uiError,    \* the page: the component's error
    fetching    \* the page: the component's fetch that has not settled yet

page == <<mounted, uiTask, uiRuns, uiLoading, uiResult, uiError, fetching>>

vars == <<apiKey, req, pc, k, m, i, runs, results, resp, log, alt, other, data, parsed,
          mounted, uiTask, uiRuns, uiLoading, uiResult, uiError, fetching>>

\* what the steps of a handler leave alone besides its own locals
aside == <<other, data, parsed, page>>

----------------------------------------------------------------------------
(* Bounds of the model *)

\* a comparison sees at most MaxAlt replies other than DefaultReply
MaxAlt == 2

(* Program constants *)
DefaultRuns == 3
MinRuns == 1
MaxRuns == 10
PauseBetweenRuns == 500
PauseBetweenModels == 1000
SuccessRateAB == 10000

----------------------------------------------------------------------------
(* JSON values *)

JUndefined == [type |-> "undefined"]
JStr(s) == [type |-> "string", val |-> s]
JNum(n) == [type |-> "number", val |-> n]
JArr(a) == [type |-> "array", val |-> a]
JNull == [type |-> "null"]
\* an object: a record of its fields, a missing field being JUndefined
JObj(r) == [type |-> "object", val |-> r]

\* the truthiness JavaScript's !, || and ?: apply
Truthy(v) ==
    CASE v.type = "undefined" -> FALSE
      [] v.type = "null" -> FALSE
      [] v.type = "string" -> v.val # <<>>
      [] v.type = "number" -> v.val # 0
      [] OTHER -> TRUE

\* a || b
OrElse(a, b) == IF Truthy(a) THEN a ELSE b

----------------------------------------------------------------------------
(* Strings *)

WhiteSpace == {" ", "\t"}

RECURSIVE trimStart(_)
trimStart(s) ==
    IF s # <<>> /\ Head(s) \in WhiteSpace THEN trimStart(Tail(s)) ELSE s

RECURSIVE trimEnd(_)
trimEnd(s) ==
    IF s # <<>> /\ s[Len(s)] \in WhiteSpace
    THEN trimEnd(SubSeq(s, 1, Len(s) - 1))
    ELSE s

trim(s) == trimEnd(trimStart(s))

LowerChar(c) ==
    CASE c = "D" -> "d"
      [] c = "I" -> "i"
      [] c = "X" -> "x"
      [] OTHER -> c

toLowerCase(s) == [j \in 1..Len(s) |-> LowerChar(s[j])]

\* s.includes(t)
includes(s, t) ==
    \E p \in 0..(Len(s) - Len(t)) : SubSeq(s, p + 1, p + Len(t)) = t

----------------------------------------------------------------------------
(* Numbers *)

\* Math.round(n / d) for d > 0: the nearest integer, a tie going up.  The
\* quotients rounded here are s * 10000 / k and sums of integers / k with
\* k <= 10: a tie needs k = 8, where the double division is exact, and every
\* other quotient is at least 1 / 18 away from a tie, so the double result is
\* this integer.
MathRound(n, d) == (2 * n + d) \div (2 * d)

RECURSIVE SumOf(_, _)
\* runs.reduce((sum, run) => sum + run[f], 0)
SumOf(rs, f) == IF rs = <<>> THEN 0 ELSE rs[1][f] + SumOf(Tail(rs), f)

\* runs.filter(pred).length
CountSuccess(rs) == Cardinality({j \in 1..Len(rs) : rs[j].success})

----------------------------------------------------------------------------
(* The provider *)

\* The JSON body of a successful provider response, as the runner reads it:
\*   text                 data.candidates?.[0]?.content?.parts?.[0]?.text
\*   safetyRatings        data.candidates?.[0]?.safetyRatings
\*   promptTokenCount     data.usageMetadata?.promptTokenCount
\*   candidatesTokenCount data.usageMetadata?.candidatesTokenCount
\* with the milliseconds the call took.
DefaultReply ==
    [ text |-> JStr(<<"x", "D", "i", " ">>),
      safetyRatings |-> JArr(<< [category |-> "HARASSMENT", probability |-> "LOW"],
                                [category |-> "HATE_SPEECH", probability |-> "NEGLIGIBLE"] >>),
      promptTokenCount |-> JNum(5),
      candidatesTokenCount |-> JNum(7),
      latencyMs |-> 100 ]

AltReply ==
    [ text |-> JUndefined,
      safetyRatings |-> JUndefined,
      promptTokenCount |-> JUndefined,
      candidatesTokenCount |-> JNum(2),
      latencyMs |-> 201 ]

Replies == {DefaultReply, AltReply}

\* the replies the provider may still give to this request
ReplyAllowed(handler, reply, used) ==
    \/ handler = "evaluate"
    \/ reply = DefaultReply
    \/ used < MaxAlt

----------------------------------------------------------------------------
(* The runner *)

\* the safetyRatings loop: the last entry of a category wins
SafetyMap(sr) ==
    IF Truthy(sr)
    THEN [c \in {sr.val[j].category : j \in DOMAIN sr.val} |->
            LET last == CHOOSE j \in DOMAIN sr.val :
                            /\ sr.val[j].category = c
                            /\ \A j2 \in DOMAIN sr.val :
                                   sr.val[j2].category = c => j2 <= j
            IN  sr.val[last].probability]
    ELSE <<>>

ResponseText(reply) == OrElse(reply.text, JStr(<<>>)).val

TokenCount(reply) ==
    OrElse(reply.promptTokenCount, JNum(0)).val
      + OrElse(reply.candidatesTokenCount, JNum(0)).val

\* variant: the blank test without trim(), if (!expectedOutput)
checkSuccess_NoTrim(responseText, expectedOutput) ==
    IF expectedOutput = <<>>
    THEN TRUE
    ELSE includes(toLowerCase(responseText), toLowerCase(expectedOutput))

\* variant: the containment test without toLowerCase()
checkSuccess_CaseSensitive(responseText, expectedOutput) ==
    IF trim(expectedOutput) = <<>>
    THEN TRUE
    ELSE includes(responseText, expectedOutput)

checkSuccess(responseText, expectedOutput) ==
    IF trim(expectedOutput) = <<>>
    THEN TRUE
    ELSE includes(toLowerCase(responseText), toLowerCase(expectedOutput))

\* evaluate: runSingleEvaluation(task, expectedOutput, modelName), response.ok
runSingleEvaluation(reply, expectedOutput) ==
    [ run_number |-> 0,
      response_text |-> ResponseText(reply),
      latency_ms |-> MathRound(reply.latencyMs * 100, 1),
      token_count |-> TokenCount(reply),
      safety_ratings |-> SafetyMap(reply.safetyRatings),
      success |-> checkSuccess(ResponseText(reply), expectedOutput) ]

\* variant: success is true only for a reply that carries text
runSingleEvaluationAB_Checked(reply) ==
    [ run_number |-> 0,
      response_text |-> ResponseText(reply),
      latency_ms |-> MathRound(reply.latencyMs * 100, 1),
      token_count |-> TokenCount(reply),
      safety_ratings |-> SafetyMap(reply.safetyRatings),
      success |-> ResponseText(reply) # <<>> ]

\* ab-test: runSingleEvaluation(task, modelName), response.ok
runSingleEvaluationAB(reply) ==
    [ run_number |-> 0,
      response_text |-> ResponseText(reply),
      latency_ms |-> MathRound(reply.latencyMs * 100, 1),
      token_count |-> TokenCount(reply),
      safety_ratings |-> SafetyMap(reply.safetyRatings),
      success |-> TRUE ]

\* variant: result.run_number = i
AssignRunNumber_Index(result, idx) == [result EXCEPT !.run_number = idx]

\* result.run_number = i + 1
AssignRunNumber(result, idx) == [result EXCEPT !.run_number = idx + 1]

----------------------------------------------------------------------------
(* The runner on the provider's JSON *)

Nullish(v) == v.type \in {"undefined", "null"}

\* v?.f
Get(v, f) == IF v.type = "object" THEN v.val[f] ELSE JUndefined

\* v?.[0]
First(v) == IF v.type = "array" /\ Len(v.val) >= 1 THEN v.val[1] ELSE JUndefined

\* data.candidates?.[0]?.content?.parts?.[0]?.text
TextOf(d) == Get(First(Get(Get(First(Get(d, "candidates")), "content"), "parts")), "text")

\* data.candidates?.[0]?.safetyRatings
RatingsOf(d) == Get(First(Get(d, "candidates")), "safetyRatings")

\* the for ... of loop over the ratings reads rating.category of every entry:
\* a TypeError when an entry is null
RatingsThrow(d) ==
    /\ Truthy(RatingsOf(d))
    /\ \/ RatingsOf(d).type # "array"
       \/ \E j \in DOMAIN RatingsOf(d).val : Nullish(RatingsOf(d).val[j])

\* what the runner reads of a body it can read, with the time the call took
Flatten(d, latencyMs) ==
    [ text |-> TextOf(d),
      safetyRatings |->
          IF Truthy(RatingsOf(d))
          THEN JArr([j \in DOMAIN RatingsOf(d).val |-> RatingsOf(d).val[j].val])
          ELSE JUndefined,
      promptTokenCount |-> Get(Get(d, "usageMetadata"), "promptTokenCount"),
      candidatesTokenCount |-> Get(Get(d, "usageMetadata"), "candidatesTokenCount"),
      latencyMs |-> latencyMs ]

TextValues == {JUndefined, JNull, JStr(<<"x", "D", "i", " ">>)}
PartValues == {JNull} \cup {JObj([text |-> t]) : t \in TextValues}
PartsValues == {JUndefined, JNull, JArr(<<>>)} \cup {JArr(<<p>>) : p \in PartValues}
ContentValues == {JUndefined, JNull} \cup {JObj([parts |-> p]) : p \in PartsValues}
RatingEntry == JObj([category |-> "HARASSMENT", probability |-> "LOW"])
RatingsValues ==
    {JUndefined, JNull, JArr(<<>>), JArr(<<RatingEntry>>), JArr(<<RatingEntry, JNull>>)}
CandidateValues ==
    {JNull} \cup
    {JObj([content |-> c, safetyRatings |-> s]) : c \in ContentValues, s \in RatingsValues}
CandidatesValues ==
    {JUndefined, JNull, JArr(<<>>)} \cup {JArr(<<c>>) : c \in CandidateValues}
TokenValues == {JUndefined, JNull, JNum(5)}
UsageValues ==
    {JUndefined, JNull} \cup
    {JObj([promptTokenCount |-> a, candidatesTokenCount |-> b]) :
        a \in TokenValues, b \in TokenValues}

\* the JSON objects a provider response with a success status may carry
ProviderBodies ==
    {JObj([candidates |-> c, usageMetadata |-> u]) :
        c \in CandidatesValues, u \in UsageValues}

NoData == JUndefined
NotParsed == [by |-> "none", threw |-> FALSE, run |-> JUndefined]

----------------------------------------------------------------------------
(* The aggregators *)

DefaultModel == "gemini-1.5-flash"

\* variant: the balanced model listed before the fast one
models_Reordered ==
    << [id |-> "gemini-1.5-flash", name |-> "Gemini 1.5 Flash (Balanced)"],
       [id |-> "gemini-1.5-flash-8b", name |-> "Gemini 1.5 Flash 8B (Fast)"],
       [id |-> "gemini-1.5-pro", name |-> "Gemini 1.5 Pro (Quality)"] >>

models ==
    << [id |-> "gemini-1.5-flash-8b", name |-> "Gemini 1.5 Flash 8B (Fast)"],
       [id |-> "gemini-1.5-flash", name |-> "Gemini 1.5 Flash (Balanced)"],
       [id |-> "gemini-1.5-pro", name |-> "Gemini 1.5 Pro (Quality)"] >>

\* passAtK = k > 0 ? (successfulRuns / k) * 100 : 0, in percent
\* as the fraction num / den
PassAtKNum(rs, n) == IF n > 0 THEN CountSuccess(rs) * 100 ELSE 0
PassAtKDen(n) == IF n > 0 THEN n ELSE 1

\* variant: Math.floor(passAtK * 100) / 100
PassAtKField_Floor(rs, n) == (PassAtKNum(rs, n) * 100) \div PassAtKDen(n)

\* pass_at_k: Math.round(passAtK * 100) / 100
PassAtKField(rs, n) == MathRound(PassAtKNum(rs, n) * 100, PassAtKDen(n))

\* variant: success_rate: 100.0, as testModel has it
SuccessRateField_Constant(rs, n) == SuccessRateAB

\* success_rate: Math.round(passAtK * 100) / 100
SuccessRateField(rs, n) == MathRound(PassAtKNum(rs, n) * 100, PassAtKDen(n))

\* variant: Math.floor(averageLatency * 100) / 100
AverageLatencyField_Floor(rs, n) ==
    IF n > 0 THEN SumOf(rs, "latency_ms") \div n ELSE 0

\* average_latency of calculatePassAtK
AverageLatencyField(rs, n) ==
    IF n > 0 THEN MathRound(SumOf(rs, "latency_ms"), n) ELSE 0

\* the value calculatePassAtK returns
EvaluationResponse(rs, n) ==
    [ type |-> "evaluation",
      pass_at_k |-> PassAtKField(rs, n),
      average_latency |-> AverageLatencyField(rs, n),
      success_rate |-> SuccessRateField(rs, n),
      total_runs |-> n,
      runs |-> rs ]

\* the value testModel returns
ModelResult(modelDisplayName, rs) ==
    [ model_name |-> modelDisplayName,
      average_latency |->
          IF Len(rs) > 0 THEN MathRound(SumOf(rs, "latency_ms"), Len(rs)) ELSE 0,
      success_rate |-> SuccessRateAB,
      average_tokens |->
          IF Len(rs) > 0 THEN MathRound(SumOf(rs, "token_count") * 100, Len(rs)) ELSE 0,
      runs |-> rs ]

ABTestResponse(rs) == [type |-> "comparison", models |-> rs]

----------------------------------------------------------------------------
(* Requests and responses *)

Tasks ==
    { JUndefined, JStr(<<>>), JStr(<<" ">>), JStr(<<"\t", " ">>),
      JStr(<<"a">>), JStr(<<" ", "a", " ">>), JNum(5) }

Counts == {JUndefined} \cup {JNum(n) : n \in (MinRuns - 2)..(MaxRuns + 1)}

ExpectedOutputs ==
    { JUndefined, JStr(<<>>), JStr(<<" ", "\t">>),
      JStr(<<"d", "I">>), JStr(<<"D", "i", " ">>),
      JStr(<<"i", "d">>), JStr(<<" ", "d">>), JStr(<<"x", "d", "i", " ", "x">>) }

NoBody ==
    [json |-> "invalid", task |-> JUndefined, count |-> JUndefined,
     expected_output |-> JUndefined]

\* the bodies a client may send: no JSON at all, or an object
Bodies(handler) ==
    {NoBody} \cup
    [ json : {"object"},
      task : Tasks,
      count : Counts,
      expected_output : IF handler = "evaluate" THEN ExpectedOutputs ELSE {JUndefined} ]

Requests ==
    { [handler |-> h, method |-> "OPTIONS", body |-> NoBody] : h \in {"evaluate", "ab-test"} }
    \cup
    UNION { [handler : {h}, method : {"POST"}, body : Bodies(h)] : h \in {"evaluate", "ab-test"} }

NoRequest == [handler |-> "none", method |-> "none", body |-> NoBody]
NoResult == [type |-> "none"]
NoResponse == [status |-> 0, detail |-> "", result |-> NoResult]

Detail(status, text) == [status |-> status, detail |-> text, result |-> NoResult]
Ok(result) == [status |-> 200, detail |-> "", result |-> result]

CallEvent(modelId) == [ev |-> "call", model |-> modelId, ms |-> 0]
ReplyEvent(modelId) == [ev |-> "reply", model |-> modelId, ms |-> 0]
ErrorEvent(modelId) == [ev |-> "error", model |-> modelId, ms |-> 0]
PauseEvent(ms) == [ev |-> "pause", model |-> "", ms |-> ms]

\* variant: !body.task, without trim()
BlankTask_NoTrim(task) ==
    \/ task.type = "undefined"
    \/ task.type = "string" /\ task.val = <<>>

\* !body.task?.trim(), for a task that is a string or missing
BlankTask(task) ==
    \/ task.type = "undefined"
    \/ task.type = "string" /\ trim(task.val) = <<>>

RunCount(count) == OrElse(count, JNum(DefaultRuns)).val

OutOfRange(n) == n < MinRuns \/ n > MaxRuns

\* variant: the credential is looked at only after the request's fields
Validate_KeyLast(r, keyPresent, rangeText) ==
    IF r.method = "OPTIONS" THEN Ok(NoResult)
    ELSE IF r.body.json = "invalid" THEN Detail(500, "req.json() failed")
    ELSE IF r.body.task.type \notin {"undefined", "string"}
        THEN Detail(500, "body.task.trim is not a function")
    ELSE IF BlankTask(r.body.task) THEN Detail(400, "task cannot be empty")
    ELSE IF OutOfRange(RunCount(r.body.count)) THEN Detail(400, rangeText)
    ELSE IF ~keyPresent
        THEN Detail(500, "GEMINI_API_KEY environment variable is required")
    ELSE NoResponse

\* what the handler answers before any provider call; NoResponse: it goes on
Validate(r, keyPresent, rangeText) ==
    IF r.method = "OPTIONS" THEN Ok(NoResult)
    ELSE IF ~keyPresent
        THEN Detail(500, "GEMINI_API_KEY environment variable is required")
    ELSE IF r.body.json = "invalid" THEN Detail(500, "req.json() failed")
    ELSE IF r.body.task.type \notin {"undefined", "string"}
        THEN Detail(500, "body.task.trim is not a function")
    ELSE IF BlankTask(r.body.task) THEN Detail(400, "task cannot be empty")
    ELSE IF OutOfRange(RunCount(r.body.count)) THEN Detail(400, rangeText)
    ELSE NoResponse

----------------------------------------------------------------------------
(* The state machine *)

NoFetch == [url |-> "none", task |-> <<>>, count |-> 0]

\* the state of a component as useState creates it
Fresh ==
    /\ uiTask = <<>>
    /\ uiRuns = DefaultRuns
    /\ uiLoading = FALSE
    /\ uiResult = JNull
    /\ uiError = ""
    /\ fetching = NoFetch

\* no component is rendered
NoPage == mounted = "none" /\ Fresh

\* the locals of the handler invocation that is running
Locals ==
    [ req |-> req, pc |-> pc, k |-> k, m |-> m, i |-> i, runs |-> runs,
      results |-> results, resp |-> resp, log |-> log, alt |-> alt ]

\* the locals of an invocation that has not received its request
IdleLocals ==
    [ req |-> NoRequest, pc |-> "idle", k |-> 0, m |-> 0, i |-> 0, runs |-> <<>>,
      results |-> <<>>, resp |-> NoResponse, log |-> <<>>, alt |-> 0 ]

Init ==
    /\ apiKey \in BOOLEAN
    /\ req = NoRequest
    /\ pc = "idle"
    /\ k = 0
    /\ m = 0
    /\ i = 0
    /\ runs = <<>>
    /\ results = <<>>
    /\ resp = NoResponse
    /\ log = <<>>
    /\ alt = 0
    /\ other = IdleLocals
    /\ data = NoData
    /\ parsed = NotParsed
    /\ NoPage

\* a request is answered at validation, with nothing started
Answer(r, response) ==
    /\ req' = r
    /\ resp' = response
    /\ pc' = "done"
    /\ k' = 0
    /\ m' = 0
    /\ i' = 0
    /\ runs' = <<>>
    /\ results' = <<>>
    /\ log' = <<>>
    /\ alt' = 0
    /\ UNCHANGED <<apiKey, aside>>

\* a request passes validation: the first fetch of the first batch is sent
Start(r, firstModel, modelId) ==
    /\ req' = r
    /\ resp' = NoResponse
    /\ pc' = "await_fetch"
    /\ k' = RunCount(r.body.count)
    /\ m' = firstModel
    /\ i' = 0
    /\ runs' = <<>>
    /\ results' = <<>>
    /\ log' = <<CallEvent(modelId)>>
    /\ alt' = 0
    /\ UNCHANGED <<apiKey, aside>>

\* variant: if (i <= k - 1), a pause after the last run too
PauseAfterRun_Always(idx, n) == idx <= n - 1

\* if (i < k - 1), if (i < runsPerModel - 1): a pause follows run idx + 1
PauseAfterRun(idx, n) == idx < n - 1

\* evaluate: Deno.serve, from the request to its first await of the provider
EvaluateReceiveFrom(rs) ==
    /\ pc = "idle"
    /\ \E r \in rs :
        /\ r.handler = "evaluate"
        /\ LET v == Validate(r, apiKey, "k must be between 1 and 10")
           IN  IF v # NoResponse THEN Answer(r, v) ELSE Start(r, 0, DefaultModel)

EvaluateReceive == EvaluateReceiveFrom(Requests)

\* variant: the failure ends the loop and the runs collected so far are returned
EvaluateProviderError_Partial ==
    /\ pc = "await_fetch"
    /\ req.handler = "evaluate"
    /\ log' = Append(log, ErrorEvent(DefaultModel))
    /\ resp' = Ok(EvaluationResponse(runs, k))
    /\ pc' = "done"
    /\ UNCHANGED <<apiKey, aside, req, k, m, i, runs, results, alt>>

\* evaluate: the provider answers with a non-success status; the Error thrown
\* by runSingleEvaluation reaches the handler's catch
EvaluateProviderError ==
    /\ pc = "await_fetch"
    /\ req.handler = "evaluate"
    /\ log' = Append(log, ErrorEvent(DefaultModel))
    /\ resp' = Detail(500, "Gemini API error")
    /\ pc' = "done"
    /\ UNCHANGED <<apiKey, aside, req, k, m, i, runs, results, alt>>

\* evaluate: the provider answers; calculatePassAtK stores the run, then
\* pauses, or leaves the loop and the handler returns the result
EvaluateProviderReply ==
    /\ pc = "await_fetch"
    /\ req.handler = "evaluate"
    /\ \E reply \in Replies :
        /\ ReplyAllowed(req.handler, reply, alt)
        /\ alt' = IF reply = DefaultReply THEN alt ELSE alt + 1
        /\ LET expectedOutput == OrElse(req.body.expected_output, JStr(<<>>)).val
               result == AssignRunNumber(runSingleEvaluation(reply, expectedOutput), i)
               pushed == Append(runs, result)
           IN  /\ runs' = pushed
               /\ IF PauseAfterRun(i, k)
                  THEN /\ log' = log \o <<ReplyEvent(DefaultModel), PauseEvent(PauseBetweenRuns)>>
                       /\ pc' = "sleep500"
                       /\ UNCHANGED <<i, resp>>
                  ELSE /\ log' = Append(log, ReplyEvent(DefaultModel))
                       /\ i' = i + 1
                       /\ resp' = Ok(EvaluationResponse(pushed, k))
                       /\ pc' = "done"
    /\ UNCHANGED <<apiKey, aside, req, k, m, results>>

\* evaluate: the 500 ms timer fires; the loop goes round and sends the next fetch
EvaluatePauseElapsed ==
    /\ pc = "sleep500"
    /\ req.handler = "evaluate"
    /\ i' = i + 1
    /\ log' = Append(log, CallEvent(DefaultModel))
    /\ pc' = "await_fetch"
    /\ UNCHANGED <<apiKey, aside, req, k, m, runs, results, resp, alt>>

\* ab-test: Deno.serve, from the request to its first await of the provider
ABTestReceiveFrom(rs) ==
    /\ pc = "idle"
    /\ \E r \in rs :
        /\ r.handler = "ab-test"
        /\ LET v == Validate(r, apiKey, "runs_per_model must be between 1 and 10")
           IN  IF v # NoResponse THEN Answer(r, v) ELSE Start(r, 1, models[1].id)

ABTestReceive == ABTestReceiveFrom(Requests)

\* ab-test: the provider answers with a non-success status
ABTestProviderError ==
    /\ pc = "await_fetch"
    /\ req.handler = "ab-test"
    /\ log' = Append(log, ErrorEvent(models[m].id))
    /\ resp' = Detail(500, "Gemini API error")
    /\ pc' = "done"
    /\ UNCHANGED <<apiKey, aside, req, k, m, i, runs, results, alt>>

\* ab-test: the provider answers; testModel stores the run, then pauses, or
\* returns the ModelResult, which the handler pushes before its own pause
ABTestProviderReply ==
    /\ pc = "await_fetch"
    /\ req.handler = "ab-test"
    /\ \E reply \in Replies :
        /\ ReplyAllowed(req.handler, reply, alt)
        /\ alt' = IF reply = DefaultReply THEN alt ELSE alt + 1
        /\ LET result == AssignRunNumber(runSingleEvaluationAB(reply), i)
               pushed == Append(runs, result)
           IN  /\ runs' = pushed
               /\ IF PauseAfterRun(i, k)
                  THEN /\ log' = log \o <<ReplyEvent(models[m].id), PauseEvent(PauseBetweenRuns)>>
                       /\ pc' = "sleep500"
                       /\ UNCHANGED <<i, results>>
                  ELSE /\ log' = log \o <<ReplyEvent(models[m].id), PauseEvent(PauseBetweenModels)>>
                       /\ i' = i + 1
                       /\ results' = Append(results, ModelResult(models[m].name, pushed))
                       /\ pc' = "sleep1000"
    /\ UNCHANGED <<apiKey, aside, req, k, m, resp>>

\* ab-test: the 500 ms timer of testModel fires
ABTestPauseElapsed ==
    /\ pc = "sleep500"
    /\ req.handler = "ab-test"
    /\ i' = i + 1
    /\ log' = Append(log, CallEvent(models[m].id))
    /\ pc' = "await_fetch"
    /\ UNCHANGED <<apiKey, aside, req, k, m, runs, results, resp, alt>>

\* variant: the next batch is sent to the model of the batch just finished
ABTestModelPauseElapsed_StaleModel ==
    /\ pc = "sleep1000"
    /\ req.handler = "ab-test"
    /\ IF m < Len(models)
       THEN /\ m' = m + 1
            /\ i' = 0
            /\ runs' = <<>>
            /\ log' = Append(log, CallEvent(models[m].id))
            /\ pc' = "await_fetch"
            /\ UNCHANGED resp
       ELSE /\ resp' = Ok(ABTestResponse(results))
            /\ pc' = "done"
            /\ UNCHANGED <<m, i, runs, log>>
    /\ UNCHANGED <<apiKey, aside, req, k, results, alt>>

\* ab-test: the 1000 ms timer of the handler fires; the next model's batch
\* starts, or the handler returns the results
ABTestModelPauseElapsed ==
    /\ pc = "sleep1000"
    /\ req.handler = "ab-test"
    /\ IF m < Len(models)
       THEN /\ m' = m + 1
            /\ i' = 0
            /\ runs' = <<>>
            /\ log' = Append(log, CallEvent(models[m + 1].id))
            /\ pc' = "await_fetch"
            /\ UNCHANGED resp
       ELSE /\ resp' = Ok(ABTestResponse(results))
            /\ pc' = "done"
            /\ UNCHANGED <<m, i, runs, log>>
    /\ UNCHANGED <<apiKey, aside, req, k, results, alt>>

Next ==
    \/ EvaluateReceive
    \/ EvaluateProviderError
    \/ EvaluateProviderReply
    \/ EvaluatePauseElapsed
    \/ ABTestReceive
    \/ ABTestProviderError
    \/ ABTestProviderReply
    \/ ABTestPauseElapsed
    \/ ABTestModelPauseElapsed

Spec == Init /\ [][Next]_vars

----------------------------------------------------------------------------
(* Two requests in one process *)

\* The handlers keep everything but GEMINI_API_KEY in locals (runs, results,
\* i, k and the request itself), so each invocation has its own.  JavaScript
\* runs one continuation at a time and changes invocation only at an await:
\* each action above runs from one await to the next, and Switch is the event
\* loop turning to the other invocation.

\* the requests the two invocations draw from
ConcRequests ==
    { r \in Requests :
        /\ r.method = "POST"
        /\ r.body.json = "object"
        /\ r.body.task \in {JStr(<<"a">>), JStr(<<" ">>)}
        /\ r.body.count \in {JNum(1), JNum(2), JNum(MaxRuns + 1)}
        /\ r.body.expected_output \in {JUndefined, JStr(<<"d", "I">>), JStr(<<"i", "d">>)}
        /\ (r.body.task = JStr(<<" ">>) \/ r.body.count = JNum(MaxRuns + 1))
               => r.body.expected_output = JUndefined }

\* variant: runs is one module-level array, shared by the invocations
Switch_SharedRuns ==
    /\ other' = Locals
    /\ req' = other.req
    /\ pc' = other.pc
    /\ k' = other.k
    /\ m' = other.m
    /\ i' = other.i
    /\ results' = other.results
    /\ resp' = other.resp
    /\ log' = other.log
    /\ alt' = other.alt
    /\ UNCHANGED <<apiKey, runs, data, parsed, page>>

\* the event loop leaves the running invocation at its await and runs the other
Switch ==
    /\ other' = Locals
    /\ req' = other.req
    /\ pc' = other.pc
    /\ k' = other.k
    /\ m' = other.m
    /\ i' = other.i
    /\ runs' = other.runs
    /\ results' = other.results
    /\ resp' = other.resp
    /\ log' = other.log
    /\ alt' = other.alt
    /\ UNCHANGED <<apiKey, data, parsed, page>>

NextConc ==
    \/ EvaluateReceiveFrom(ConcRequests)
    \/ EvaluateProviderError
    \/ EvaluateProviderReply
    \/ EvaluatePauseElapsed
    \/ ABTestReceiveFrom(ConcRequests)
    \/ ABTestProviderError
    \/ ABTestProviderReply
    \/ ABTestPauseElapsed
    \/ ABTestModelPauseElapsed
    \/ Switch

SpecConc == Init /\ [][NextConc]_vars

----------------------------------------------------------------------------
(* The runner alone *)

\* one provider response with a success status is waiting to be read
InitRunner ==
    /\ apiKey = TRUE
    /\ req = NoRequest
    /\ pc = "idle"
    /\ k = 0
    /\ m = 0
    /\ i = 0
    /\ runs = <<>>
    /\ results = <<>>
    /\ resp = NoResponse
    /\ log = <<>>
    /\ alt = 0
    /\ other = IdleLocals
    /\ data \in ProviderBodies
    /\ parsed = NotParsed
    /\ NoPage

\* evaluate: runSingleEvaluation from response.json() to its return
RunnerEvaluate ==
    /\ parsed = NotParsed
    /\ \E expectedOutput \in {<<>>, <<"d", "I">>} :
        parsed' =
            IF RatingsThrow(data)
            THEN [by |-> "evaluate", threw |-> TRUE, run |-> JUndefined]
            ELSE [by |-> "evaluate", threw |-> FALSE,
                  run |-> runSingleEvaluation(Flatten(data, 100), expectedOutput)]
    /\ UNCHANGED <<apiKey, req, pc, k, m, i, runs, results, resp, log, alt, other, data, page>>

\* ab-test: runSingleEvaluation from response.json() to its return
RunnerABTest ==
    /\ parsed = NotParsed
    /\ parsed' =
           IF RatingsThrow(data)
           THEN [by |-> "ab-test", threw |-> TRUE, run |-> JUndefined]
           ELSE [by |-> "ab-test", threw |-> FALSE,
                 run |-> runSingleEvaluationAB(Flatten(data, 100))]
    /\ UNCHANGED <<apiKey, req, pc, k, m, i, runs, results, resp, log, alt, other, data, page>>

NextRunner == RunnerEvaluate \/ RunnerABTest

SpecRunner == InitRunner /\ [][NextRunner]_vars

----------------------------------------------------------------------------
(* The page *)

Components == {"SingleEvaluation", "ABTesting"}
TaskInputs == {<<>>, <<" ">>, <<"a">>, <<"a", " ">>}
RunsInputs == {MinRuns, DefaultRuns}
\* the detail of a response that is not ok, "" when it has none
Details == {"", "API key not configured"}
FetchRejected == "Failed to fetch"

\* App has rendered one of the two components and nothing else has happened
InitPage ==
    /\ apiKey = TRUE
    /\ req = NoRequest
    /\ pc = "idle"
    /\ k = 0
    /\ m = 0
    /\ i = 0
    /\ runs = <<>>
    /\ results = <<>>
    /\ resp = NoResponse
    /\ log = <<>>
    /\ alt = 0
    /\ other = IdleLocals
    /\ data = NoData
    /\ parsed = NotParsed
    /\ mounted \in Components
    /\ Fresh

backend == <<apiKey, req, pc, k, m, i, runs, results, resp, log, alt, other, data, parsed>>

\* onChange of the task textarea
setTask ==
    /\ \E t \in TaskInputs : uiTask' = t
    /\ UNCHANGED <<backend, mounted, uiRuns, uiLoading, uiResult, uiError, fetching>>

\* onChange of the k / runs per model input
setRunsPerModel ==
    /\ \E n \in RunsInputs : uiRuns' = n
    /\ UNCHANGED <<backend, mounted, uiTask, uiLoading, uiResult, uiError, fetching>>

\* a click on the submit button, up to the first await; the button is
\* disabled while loading
handleSubmit(url) ==
    /\ ~uiLoading
    /\ IF trim(uiTask) = <<>>
       THEN /\ uiError' = "Task cannot be empty"
            /\ UNCHANGED <<uiLoading, uiResult, fetching>>
       ELSE /\ uiLoading' = TRUE
            /\ uiError' = ""
            /\ uiResult' = JNull
            /\ fetching' = [url |-> url, task |-> uiTask, count |-> uiRuns]
    /\ UNCHANGED <<backend, mounted, uiTask, uiRuns>>

handleEvaluate == mounted = "SingleEvaluation" /\ handleSubmit("evaluate")

handleABTest == mounted = "ABTesting" /\ handleSubmit("ab-test")

\* the fetch settles with an ok response: setResult, then finally
FetchOk ==
    /\ fetching # NoFetch
    /\ uiResult' = JObj([from |-> fetching.url])
    /\ uiLoading' = FALSE
    /\ fetching' = NoFetch
    /\ UNCHANGED <<backend, mounted, uiTask, uiRuns, uiError>>

\* the fetch settles with a response that is not ok, or rejects: catch, then
\* finally
FetchFailed ==
    /\ fetching # NoFetch
    /\ \/ \E detail \in Details :
            uiError' = IF detail # "" THEN detail
                       ELSE IF fetching.url = "evaluate" THEN "Evaluation failed"
                       ELSE "A/B test failed"
       \/ uiError' = FetchRejected
    /\ uiLoading' = FALSE
    /\ fetching' = NoFetch
    /\ UNCHANGED <<backend, mounted, uiTask, uiRuns, uiResult>>

NextPage ==
    \/ setTask
    \/ setRunsPerModel
    \/ handleEvaluate
    \/ handleABTest
    \/ FetchOk
    \/ FetchFailed

SpecPage == InitPage /\ [][NextPage]_vars

----------------------------------------------------------------------------
(* Vocabulary of the properties *)

\* a request has been received and is being handled, or has been answered
Handling == pc # "idle"

\* the request reached the handler's validation of its fields: it is not a
\* CORS preflight and carries a JSON object
HasFields == Handling /\ req.method = "POST" /\ req.body.json = "object"

\* the task is missing, empty or made of white space only
TaskIsBlank ==
    \/ req.body.task.type = "undefined"
    \/ /\ req.body.task.type = "string"
       /\ \A j \in DOMAIN req.body.task.val : req.body.task.val[j] \in {" ", "\t"}

\* the task is a string with a character that is not white space
TaskIsText ==
    /\ req.body.task.type = "string"
    /\ \E j \in DOMAIN req.body.task.val : req.body.task.val[j] \notin {" ", "\t"}

\* the run count the request supplies is the integer n
Supplies(n) == req.body.count.type = "number" /\ req.body.count.val = n

ProviderCalls == {j \in DOMAIN log : log[j].ev = "call"}
ProviderErrors == {j \in DOMAIN log : log[j].ev = "error"}

\* the response is an InvalidArgument: HTTP 400 with a detail string and no result
Rejected400 ==
    /\ pc = "done"
    /\ resp.status = 400
    /\ resp.detail # ""
    /\ resp.result = NoResult

\* the response is the 200 of a finished single evaluation
EvaluationDone ==
    /\ pc = "done"
    /\ req.handler = "evaluate"
    /\ resp.status = 200
    /\ resp.result.type = "evaluation"

\* the response is the 200 of a finished comparison
ComparisonDone ==
    /\ pc = "done"
    /\ req.handler = "ab-test"
    /\ resp.status = 200
    /\ resp.result.type = "comparison"

RunNumbersDense(rs, n) ==
    /\ Len(rs) = n
    /\ \A j \in 1..n : rs[j].run_number = j

----------------------------------------------------------------------------
(* C1: in both handlers a request with a non-blank task and a run count of 0
   (k = 0, runs_per_model = 0) is rejected with HTTP 400 and no provider call
   is made while it is handled.  Stated for requests that reach validation
   with the credential configured. *)
C1_ZeroRunsRejected ==
    (HasFields /\ apiKey /\ TaskIsText /\ Supplies(0))
        => (Rejected400 /\ ProviderCalls = {})

(* C2, as claimed: in both handlers a request whose task is missing, empty or
   white space only is answered with HTTP 400 and a detail string, and no
   provider call is made, whatever the other fields and the configuration. *)
C2_BlankTaskRejectedAlways ==
    (HasFields /\ TaskIsBlank) => (Rejected400 /\ ProviderCalls = {})

(* C2, amended: in both handlers, when the provider credential is configured,
   a POST request with a JSON object whose task is missing, empty or white
   space only is answered with HTTP 400 and a detail string, and no provider
   call is made, whatever the run count and expected output are. *)
C2_BlankTaskRejected ==
    (HasFields /\ apiKey /\ TaskIsBlank) => (Rejected400 /\ ProviderCalls = {})

\* a white-space-only task with a valid run count was rejected
C2_Witness ==
    /\ HasFields /\ apiKey
    /\ req.body.task = JStr(<<"\t", " ">>)
    /\ Supplies(2)
    /\ Rejected400
    /\ resp.detail = "task cannot be empty"

(* C3: in both handlers a request with a non-blank task whose supplied run
   count is an integer outside [1,10] is rejected with HTTP 400 and makes no
   provider call, and one whose run count is inside [1,10] passes validation
   and reaches the aggregation loop.  Stated for requests that reach
   validation with the credential configured. *)
C3_RangeEnforced ==
    \A n \in (MinRuns - 2)..(MaxRuns + 1) :
        (HasFields /\ apiKey /\ TaskIsText /\ Supplies(n)) =>
            IF n < 1 \/ n > 10
            THEN Rejected400 /\ ProviderCalls = {}
            ELSE /\ ~Rejected400
                 /\ ProviderCalls # {}
                 /\ k = n

(* C4: in both workflows, once a provider call has returned a non-success
   status the request is over with an HTTP 500 response that carries a detail
   string and no result (none of the runs or model results collected so far),
   the failed call is the last thing the request did (it is not retried and
   no provider call follows it), and it is the only failure. *)
C4_ProviderErrorAborts ==
    (ProviderErrors # {}) =>
        /\ pc = "done"
        /\ resp.status = 500
        /\ resp.detail # ""
        /\ resp.result = NoResult
        /\ ProviderErrors = {Len(log)}
        /\ \A j \in ProviderCalls : j < Len(log)

\* a comparison failed in the middle of its second batch, with runs and a
\* model result already collected
C4_Witness ==
    /\ req.handler = "ab-test"
    /\ ProviderErrors # {}
    /\ Len(results) = 1
    /\ Len(runs) = 1
    /\ k = 3
    /\ resp.status = 500

(* C5: every successful single evaluation of a request with K in [1,10]
   returns exactly K runs numbered 1, 2, ..., K in that order, total_runs = K,
   and made exactly K provider calls. *)
C5_RunsDense ==
    \A n \in 1..10 :
        (EvaluationDone /\ Supplies(n)) =>
            /\ RunNumbersDense(resp.result.runs, n)
            /\ resp.result.total_runs = n
            /\ Cardinality(ProviderCalls) = n

C5_Witness ==
    /\ EvaluationDone
    /\ Supplies(MaxRuns)
    /\ resp.result.runs[MaxRuns].run_number = MaxRuns
    /\ \E j \in 1..MaxRuns : resp.result.runs[j].response_text = <<>>

(* C6: every successful comparison of a request with R in [1,10] returns
   exactly 3 model results, in the order fast (Flash 8B), balanced (Flash),
   quality (Pro), each holding exactly R runs numbered 1..R in order. *)
C6_ThreeModelsInOrder ==
    \A n \in 1..10 :
        (ComparisonDone /\ Supplies(n)) =>
            /\ Len(resp.result.models) = 3
            /\ resp.result.models[1].model_name = "Gemini 1.5 Flash 8B (Fast)"
            /\ resp.result.models[2].model_name = "Gemini 1.5 Flash (Balanced)"
            /\ resp.result.models[3].model_name = "Gemini 1.5 Pro (Quality)"
            /\ \A j \in 1..3 : RunNumbersDense(resp.result.models[j].runs, n)

C6_Witness ==
    /\ ComparisonDone
    /\ Supplies(MaxRuns)
    /\ Len(resp.result.models) = 3
    /\ alt > 0

(* C7: in every single-evaluation result pass_at_k and success_rate hold the
   same value. *)
C7_PassEqualsSuccessRate ==
    EvaluationDone => resp.result.pass_at_k = resp.result.success_rate

\* a result where some runs succeeded and some did not
C7_Witness ==
    /\ EvaluationDone
    /\ resp.result.total_runs = 3
    /\ resp.result.pass_at_k = 6667
    /\ resp.result.success_rate = 6667

(* C8: in every single-evaluation result pass_at_k is (the number of returned
   runs with success = true) / K * 100 rounded to 2 decimals (K = total_runs):
   it is the multiple of 0.01 nearest to that quotient, lies in [0,100], is
   100 exactly when every run succeeded and 0 exactly when none did. *)
C8_PassAtKValue ==
    EvaluationDone =>
        LET res == resp.result
            K == res.total_runs
            s == Cardinality({j \in DOMAIN res.runs : res.runs[j].success})
            p == res.pass_at_k
        IN  /\ K > 0
            /\ 2 * K * p <= 2 * s * 100 * 100 + K
            /\ 2 * K * p > 2 * s * 100 * 100 - K
            /\ p >= 0 /\ p <= 10000
            /\ (p = 10000) <=> (s = Len(res.runs))
            /\ (p = 0) <=> (s = 0)

\* 3 of 7 runs succeeded: 42.857... is reported as 42.86
C8_Witness ==
    /\ EvaluationDone
    /\ resp.result.total_runs = 7
    /\ Cardinality({j \in DOMAIN resp.result.runs : resp.result.runs[j].success}) = 3
    /\ resp.result.pass_at_k = 4286

\* expected_output is omitted, empty or white space only
ExpectedIsBlank ==
    \/ req.body.expected_output.type = "undefined"
    \/ /\ req.body.expected_output.type = "string"
       /\ \A j \in DOMAIN req.body.expected_output.val :
              req.body.expected_output.val[j] \in {" ", "\t"}

(* C9: in a single evaluation whose expected_output is omitted, empty or
   white space only, every returned run has success = true whatever its
   response_text is, and pass_at_k is 100. *)
C9_BlankExpectedSucceeds ==
    (EvaluationDone /\ ExpectedIsBlank) =>
        /\ \A j \in DOMAIN resp.result.runs : resp.result.runs[j].success
        /\ resp.result.pass_at_k = 10000

\* white space as expected_output, and a run whose response_text is empty
C9_Witness ==
    /\ EvaluationDone
    /\ req.body.expected_output = JStr(<<" ", "\t">>)
    /\ \E j \in DOMAIN resp.result.runs :
           resp.result.runs[j].response_text = <<>> /\ resp.result.runs[j].success
    /\ \E j \in DOMAIN resp.result.runs : resp.result.runs[j].response_text # <<>>

\* two characters are the same letter, whatever their case
SameLetter(a, b) ==
    \/ a = b
    \/ {a, b} \in {{"D", "d"}, {"I", "i"}, {"X", "x"}}

\* text contains sub as a substring when case is ignored
ContainsIgnoringCase(text, sub) ==
    \E p \in 0..(Len(text) - Len(sub)) :
        \A j \in 1..Len(sub) : SameLetter(text[p + j], sub[j])

(* C10: in a single evaluation with a non-blank expected_output, a run's
   success is true if and only if its response_text contains expected_output
   as a substring when case is ignored. *)
C10_SuccessIffContains ==
    (EvaluationDone /\ ~ExpectedIsBlank) =>
        \A j \in DOMAIN resp.result.runs :
            resp.result.runs[j].success <=>
                ContainsIgnoringCase(resp.result.runs[j].response_text,
                                     req.body.expected_output.val)

\* "dI" is found in "xDi " only when case is ignored, and not in ""
C10_Witness ==
    /\ EvaluationDone
    /\ req.body.expected_output = JStr(<<"d", "I">>)
    /\ \E j \in DOMAIN resp.result.runs :
           /\ resp.result.runs[j].response_text = <<"x", "D", "i", " ">>
           /\ resp.result.runs[j].success
    /\ \E j \in DOMAIN resp.result.runs : ~resp.result.runs[j].success


(* C11: in every comparison result every ModelResult has success_rate
   exactly 100.0 and every run in it has success = true, whatever text the
   provider returned (empty text included). *)
C11_ComparisonAlwaysSucceeds ==
    ComparisonDone =>
        \A j \in DOMAIN resp.result.models :
            /\ resp.result.models[j].success_rate = 10000
            /\ \A r \in DOMAIN resp.result.models[j].runs :
                   resp.result.models[j].runs[r].success

\* a comparison one of whose runs came back without text
C11_Witness ==
    /\ ComparisonDone
    /\ \E j \in DOMAIN resp.result.models :
           \E r \in DOMAIN resp.result.models[j].runs :
               /\ resp.result.models[j].runs[r].response_text = <<>>
               /\ resp.result.models[j].runs[r].success
    /\ \A j \in DOMAIN resp.result.models : resp.result.models[j].success_rate = 10000

\* avg (in hundredths) is sum / n rounded to the nearest hundredth, where sum
\* is in hundredths too
IsRoundedMean(avg, sum, n) ==
    /\ n > 0
    /\ 2 * n * avg <= 2 * sum + n
    /\ 2 * n * avg > 2 * sum - n

(* C12: in every successful result average_latency (both workflows) and
   average_tokens (comparison) are the arithmetic mean of the latency_ms,
   respectively token_count, of exactly the runs returned in that result,
   rounded to 2 decimals. *)
C12_AveragesAreMeans ==
    /\ EvaluationDone =>
           IsRoundedMean(resp.result.average_latency,
                         SumOf(resp.result.runs, "latency_ms"),
                         Len(resp.result.runs))
    /\ ComparisonDone =>
           \A j \in DOMAIN resp.result.models :
               LET mr == resp.result.models[j]
               IN  /\ IsRoundedMean(mr.average_latency,
                                    SumOf(mr.runs, "latency_ms"), Len(mr.runs))
                   /\ IsRoundedMean(mr.average_tokens,
                                    100 * SumOf(mr.runs, "token_count"), Len(mr.runs))

\* latencies 100, 100 and 201 ms in some order: 133.666... is reported as 133.67
C12_Witness ==
    /\ EvaluationDone
    /\ Len(resp.result.runs) = 3
    /\ SumOf(resp.result.runs, "latency_ms") = 40100
    /\ resp.result.average_latency = 13367

(* C13: when the provider credential is absent, every Evaluate or Compare
   request other than a CORS preflight is answered with HTTP 500 and a detail
   string, and no provider call is made. *)
C13_MissingCredential ==
    (Handling /\ ~apiKey /\ req.method # "OPTIONS") =>
        /\ pc = "done"
        /\ resp.status = 500
        /\ resp.detail # ""
        /\ resp.result = NoResult
        /\ ProviderCalls = {}

\* a request that is valid in every field, refused for the credential alone
C13_Witness ==
    /\ ~apiKey
    /\ HasFields /\ TaskIsText /\ Supplies(2)
    /\ resp.status = 500
    /\ ProviderCalls = {}


\* the pauses the request has begun, by length
Pauses(ms) == {j \in DOMAIN log : log[j].ev = "pause" /\ log[j].ms = ms}

\* the request has entered its aggregation loop
Aggregating == Handling /\ k > 0

(* C15: within one batch of N runs against one model a 500 ms pause is taken
   after run i and before run i + 1 for every 1 <= i < N, and none after run
   N: every 500 ms pause follows a run and is followed by nothing but the next
   call to the same model, every call but the first of a batch follows such a
   pause, and a batch of N runs takes N - 1 of them. *)
C15_PausesBetweenRuns ==
    /\ \A j \in Pauses(500) :
           /\ j > 1 /\ log[j - 1].ev = "reply"
           /\ j < Len(log) =>
                  log[j + 1].ev = "call" /\ log[j + 1].model = log[j - 1].model
    /\ \A j \in ProviderCalls :
           j > 1 =>
               /\ log[j - 1].ev = "pause"
               /\ (log[j - 1].ms = 500) <=> (log[j - 2].model = log[j].model)
    /\ (Aggregating /\ req.handler = "evaluate") =>
           Cardinality(Pauses(500)) = IF Len(runs) = k THEN k - 1 ELSE Len(runs)
    /\ (Aggregating /\ req.handler = "ab-test") =>
           Cardinality(Pauses(500)) =
               Len(results) * (k - 1) + IF Len(results) = m THEN 0 ELSE Len(runs)
    /\ EvaluationDone => log[Len(log)].ev = "reply"
    /\ pc = "sleep1000" => log[Len(log)].ms = 1000 /\ log[Len(log) - 1].ev = "reply"

\* a finished evaluation of 4 runs took 3 pauses of 500 ms
C15_Witness ==
    /\ EvaluationDone
    /\ Supplies(4)
    /\ Len(resp.result.runs) = 4
    /\ Cardinality(Pauses(500)) = 3

(* C16: in a comparison a 1000 ms pause is taken after a model's batch
   exactly when another model's batch follows it: the second and third
   batches start only after a 1000 ms pause that follows the previous batch's
   last run, and no 1000 ms pause is taken between the last model's batch and
   the response. *)
C16_PauseOnlyBetweenModels ==
    /\ \A j \in ProviderCalls :
           (j > 1 /\ log[j - 2].model # log[j].model) =>
               /\ log[j - 1].ev = "pause" /\ log[j - 1].ms = 1000
               /\ log[j - 2].ev = "reply"
    /\ \A j \in Pauses(1000) : log[j - 1].model # "gemini-1.5-pro"
    /\ ComparisonDone => Cardinality(Pauses(1000)) = 2

IsCall(e) == e.ev = "call"

\* the model identifiers of the provider calls made so far, in order
CallModels == [j \in DOMAIN SelectSeq(log, IsCall) |-> SelectSeq(log, IsCall)[j].model]

(* C17: within one request at most one provider call is in flight and call
   n + 1 starts only after call n has returned; a successful comparison of R
   runs per model makes exactly 3R calls, the first R to the fast model, the
   next R to the balanced one and the last R to the quality one. *)
C17_SequentialCalls ==
    /\ Cardinality(ProviderCalls)
         - Cardinality({j \in DOMAIN log : log[j].ev \in {"reply", "error"}}) \in {0, 1}
    /\ \A j \in ProviderCalls :
           j < Len(log) =>
               log[j + 1].ev \in {"reply", "error"} /\ log[j + 1].model = log[j].model
    /\ \A n \in 1..10 :
           (ComparisonDone /\ Supplies(n)) =>
               /\ Len(CallModels) = 3 * n
               /\ \A j \in 1..(3 * n) :
                      CallModels[j] =
                          IF j <= n THEN "gemini-1.5-flash-8b"
                          ELSE IF j <= 2 * n THEN "gemini-1.5-flash"
                          ELSE "gemini-1.5-pro"

\* a finished comparison of 3 runs per model: 9 calls
C17_Witness ==
    /\ ComparisonDone
    /\ Supplies(3)
    /\ Len(CallModels) = 9
    /\ CallModels[4] = "gemini-1.5-flash"
    /\ CallModels[7] = "gemini-1.5-pro"


\* the events of one kind in the log of an invocation
EventsOf(s, kind) == {j \in DOMAIN s.log : s.log[j].ev = kind}

\* the request of invocation s is valid in its fields
ValidFields(s) ==
    /\ s.req.body.task.type = "string"
    /\ \E j \in DOMAIN s.req.body.task.val : s.req.body.task.val[j] \notin {" ", "\t"}
    /\ s.req.body.count.type = "number"
    /\ s.req.body.count.val \in 1..10

\* what invocation s answers and holds follows from its own request and from
\* the provider's answers to its own calls
OwnOutcome(s) ==
    /\ s.req.handler = "evaluate" => Len(s.runs) = Cardinality(EventsOf(s, "reply"))
    /\ s.pc = "done" =>
        /\ (s.resp.status = 400) <=> (apiKey /\ ~ValidFields(s))
        /\ (s.resp.status = 500) <=> (~apiKey \/ EventsOf(s, "error") # {})
        /\ (s.resp.status = 200) <=>
               (apiKey /\ ValidFields(s) /\ EventsOf(s, "error") = {})
    /\ (s.pc = "done" /\ s.resp.status = 200 /\ s.req.handler = "evaluate") =>
        /\ RunNumbersDense(s.resp.result.runs, s.req.body.count.val)
        /\ s.resp.result.total_runs = s.req.body.count.val
        /\ Cardinality(EventsOf(s, "call")) = s.req.body.count.val
        /\ \A j \in DOMAIN s.resp.result.runs :
               s.resp.result.runs[j].success <=>
                   \/ s.req.body.expected_output.type = "undefined"
                   \/ ContainsIgnoringCase(s.resp.result.runs[j].response_text,
                                           s.req.body.expected_output.val)
    /\ (s.pc = "done" /\ s.resp.status = 200 /\ s.req.handler = "ab-test") =>
        /\ Len(s.resp.result.models) = 3
        /\ \A j \in 1..3 :
               RunNumbersDense(s.resp.result.models[j].runs, s.req.body.count.val)
        /\ Cardinality(EventsOf(s, "call")) = 3 * s.req.body.count.val

(* C14: when two requests are handled by the same process with their awaits
   and pauses interleaved in any order, each response contains only the runs
   of its own request, numbered 1..K for its own K, and its status and result
   follow from its own request and its own provider answers: a validation
   error, a provider failure or a success of the other request changes
   nothing in it. *)
C14_RequestsIsolated == OwnOutcome(Locals) /\ OwnOutcome(other)

\* an evaluation of 2 runs finished with both runs successful while another
\* evaluation, whose expected output never matches, was between its two runs
C14_Witness ==
    /\ EvaluationDone
    /\ Supplies(2)
    /\ req.body.expected_output = JStr(<<"d", "I">>)
    /\ resp.result.pass_at_k = 10000
    /\ other.pc = "sleep500"
    /\ other.req.handler = "evaluate"
    /\ other.req.body.expected_output = JStr(<<"i", "d">>)
    /\ Len(other.runs) = 1
    /\ ~other.runs[1].success


\* the body has every level of the text path, down to a text
TextPresent(d) ==
    /\ d.val.candidates.type = "array" /\ Len(d.val.candidates.val) >= 1
    /\ d.val.candidates.val[1].type = "object"
    /\ d.val.candidates.val[1].val.content.type = "object"
    /\ d.val.candidates.val[1].val.content.val.parts.type = "array"
    /\ Len(d.val.candidates.val[1].val.content.val.parts.val) >= 1
    /\ d.val.candidates.val[1].val.content.val.parts.val[1].type = "object"
    /\ d.val.candidates.val[1].val.content.val.parts.val[1].val.text.type = "string"

\* the body has a first candidate with at least one safety entry
RatingsPresent(d) ==
    /\ d.val.candidates.type = "array" /\ Len(d.val.candidates.val) >= 1
    /\ d.val.candidates.val[1].type = "object"
    /\ d.val.candidates.val[1].val.safetyRatings.type = "array"
    /\ Len(d.val.candidates.val[1].val.safetyRatings.val) >= 1

\* the tokens the body reports in field f, 0 when any level is missing
TokensIn(d, f) ==
    IF d.val.usageMetadata.type = "object" /\ d.val.usageMetadata.val[f].type = "number"
    THEN d.val.usageMetadata.val[f].val
    ELSE 0

(* C18: for every provider response with a success status and a JSON body,
   whichever nested level (candidates, first candidate, content, parts, first
   part, text, safetyRatings or one of its entries, usageMetadata, either
   token field) is absent or null, the runner returns a RunResult and does
   not fail; response_text is empty when a level of the text path is missing,
   safety_ratings is an empty map when there are no safety entries, and each
   missing token field counts as 0. *)
C18_TolerantParsing ==
    (parsed # NotParsed) =>
        /\ ~parsed.threw
        /\ ~TextPresent(data) => parsed.run.response_text = <<>>
        /\ ~RatingsPresent(data) => DOMAIN parsed.run.safety_ratings = {}
        /\ parsed.run.token_count =
               TokensIn(data, "promptTokenCount") + TokensIn(data, "candidatesTokenCount")


\* a task of white space only
BlankInput(t) == \A j \in DOMAIN t : t[j] = " "

(* C19: in the SingleEvaluation and ABTesting components, after any sequence
   of task edits, submit clicks and request completions, a non-empty error
   message and a non-null result are never both present, loading is true
   exactly while a request of the component is in flight, and a submit click
   with a blank task sends no request (no request in flight carries a blank
   task). *)
C19_ComponentState ==
    (mounted \in Components) =>
        /\ ~(uiError # "" /\ uiResult # JNull)
        /\ uiLoading <=> (fetching # NoFetch)
        /\ (fetching # NoFetch) => ~BlankInput(fetching.task)

====
